---- MODULE Spec2Model ----
(***************************************************************************)
(* A model of the mnist crate (src/src/lib.rs, src/src/error.rs): the IDX  *)
(* label and image decoders, the bundle loader Mnist::load, and the Image  *)
(* accessors (Display, as_f64_array, from_f64_array).                      *)
(*                                                                         *)
(* A file is a byte sequence read through a cursor, exactly as the code    *)
(* reads it through BufReader::read_exact.  An f64 is a 53-bit significand *)
(* (a bit sequence, most significant bit first) and a binary exponent, and *)
(* division and multiplication round to nearest, ties to even, as IEEE 754 *)
(* binary64 does.                                                          *)
(***************************************************************************)
EXTENDS Integers, Sequences, FiniteSets, TLC

VARIABLES
    call,          \* the last completed read_labels / read_images call
    pc,            \* position of Mnist::load
    dir,           \* the directory Mnist::load was given: file name -> file
    decodes,       \* the decodes Mnist::load has made, in order, with results
    train_labels,  \* locals of Mnist::load
    train_images,
    test_labels,
    test_images,
    loaded,        \* what Mnist::load returned
    img,           \* an Image a caller holds
    text,          \* what Display wrote for img
    fa,            \* img.as_f64_array()
    back           \* Image::from_f64_array(&fa)

vars == <<call, pc, dir, decodes, train_labels, train_images, test_labels,
          test_images, loaded, img, text, fa, back>>

---------------------------------------------------------------------------
(* Program constants *)

IMAGE_WIDTH == 28

IMAGE_HEIGHT == 28

NPIXELS == IMAGE_WIDTH * IMAGE_HEIGHT

LABEL_MAGIC == 2049

IMAGE_MAGIC == 2051

\* significand width of f64
MANT_BITS == 53

ASCII_GRADIENT == <<" ", ".", ":", "*", "@">>

(* Bounds of the model *)

\* the largest image count a generated image file declares
MaxCount == 2

\* the largest label count a generated label file declares
MaxLabels == 3

---------------------------------------------------------------------------
(* Result<T, MnistError> and MnistError *)

Ok(v) == [tag |-> "Ok", val |-> v]

Err(e) == [tag |-> "Err", err |-> e]

Io(e) == [kind |-> "Io", io |-> e]

InvalidMagicNumber(expected, found) ==
    [kind |-> "InvalidMagicNumber", expected |-> expected, found |-> found]

InvalidImageDimensions(expected, found) ==
    [kind |-> "InvalidImageDimensions", expected |-> expected, found |-> found]

\* impl From<io::Error> for MnistError
from_io(e) == Io(e)

---------------------------------------------------------------------------
(* Files and the reader *)

File(bytes) == [present |-> TRUE, bytes |-> bytes]

AbsentFile == [present |-> FALSE, bytes |-> <<>>]

\* File::open: the file, or io::ErrorKind::NotFound
open(file) == IF file.present THEN Ok(file) ELSE Err("NotFound")

BufReader(file) == [bytes |-> file.bytes, pos |-> 0]

\* a read that fills what is there and leaves the rest of the zeroed buffer
read_short(reader, n) ==
    LET avail == Len(reader.bytes) - reader.pos
        got == IF avail < n THEN avail ELSE n
    IN [tag |-> "Ok",
        val |-> [i \in 1..n |-> IF i <= got THEN reader.bytes[reader.pos + i] ELSE 0],
        reader |-> [reader EXCEPT !.pos = @ + got]]

\* Read::read_exact: n bytes, or UnexpectedEof when fewer remain
read_exact(reader, n) ==
    IF reader.pos + n > Len(reader.bytes)
    THEN [tag |-> "Err", err |-> "UnexpectedEof", reader |-> reader]
    ELSE [tag |-> "Ok",
          val |-> SubSeq(reader.bytes, reader.pos + 1, reader.pos + n),
          reader |-> [reader EXCEPT !.pos = @ + n]]

from_le_bytes(buf) ==
    buf[4] * 16777216 + buf[3] * 65536 + buf[2] * 256 + buf[1]

\* u32::from_be_bytes
from_be_bytes(buf) ==
    buf[1] * 16777216 + buf[2] * 65536 + buf[3] * 256 + buf[4]

read_u32(reader) ==
    LET r == read_exact(reader, 4)
    IN IF r.tag = "Err" THEN r ELSE [r EXCEPT !.val = from_be_bytes(r.val)]

---------------------------------------------------------------------------
(* read_labels *)

\* the label bytes are read to the end of the file, whatever the count says
read_labels_to_end(file) ==
    LET f == open(file)
    IN IF f.tag = "Err" THEN Err(from_io(f.err)) ELSE
       LET magic_number == read_u32(BufReader(f.val))
       IN IF magic_number.tag = "Err" THEN Err(from_io(magic_number.err)) ELSE
          IF magic_number.val /= LABEL_MAGIC
          THEN Err(InvalidMagicNumber(LABEL_MAGIC, magic_number.val)) ELSE
          LET num_items == read_u32(magic_number.reader)
          IN IF num_items.tag = "Err" THEN Err(from_io(num_items.err)) ELSE
             LET rest == Len(file.bytes) - num_items.reader.pos
             IN IF rest < num_items.val THEN Err(from_io("UnexpectedEof"))
                ELSE Ok(read_exact(num_items.reader, rest).val)

read_labels(file) ==
    LET f == open(file)
    IN IF f.tag = "Err" THEN Err(from_io(f.err)) ELSE
       LET magic_number == read_u32(BufReader(f.val))
       IN IF magic_number.tag = "Err" THEN Err(from_io(magic_number.err)) ELSE
          IF magic_number.val /= LABEL_MAGIC
          THEN Err(InvalidMagicNumber(LABEL_MAGIC, magic_number.val)) ELSE
          LET num_items == read_u32(magic_number.reader)
          IN IF num_items.tag = "Err" THEN Err(from_io(num_items.err)) ELSE
             LET labels == read_exact(num_items.reader, num_items.val)
             IN IF labels.tag = "Err" THEN Err(from_io(labels.err))
                ELSE Ok(labels.val)

---------------------------------------------------------------------------
(* read_images *)

Image(pixels) == [pixels |-> pixels]

RECURSIVE read_blocks_prepend(_, _, _)
\* each image is put in front of the ones read before it
read_blocks_prepend(reader, remaining, images) ==
    IF remaining = 0 THEN Ok(images) ELSE
    LET pixels == read_exact(reader, NPIXELS)
    IN IF pixels.tag = "Err" THEN Err(from_io(pixels.err))
       ELSE read_blocks_prepend(pixels.reader, remaining - 1,
                                <<Image(pixels.val)>> \o images)

RECURSIVE read_blocks_loop(_, _, _)
read_blocks_loop(reader, remaining, images) ==
    IF remaining = 0 THEN Ok(images) ELSE
    LET pixels == read_exact(reader, NPIXELS)
    IN IF pixels.tag = "Err" THEN Err(from_io(pixels.err))
       ELSE read_blocks_loop(pixels.reader, remaining - 1,
                             Append(images, Image(pixels.val)))

\* for _ in 0..num_images { read_exact(&mut pixels)?; images.push(..) }
read_blocks(reader, remaining, images) ==
    read_blocks_loop(reader, remaining, images)

dimension_error_swapped(num_rows, num_cols) ==
    InvalidImageDimensions(<<IMAGE_WIDTH, IMAGE_HEIGHT>>, <<num_rows, num_cols>>)

dimension_error(num_rows, num_cols) ==
    InvalidImageDimensions(<<IMAGE_WIDTH, IMAGE_HEIGHT>>, <<num_cols, num_rows>>)

\* the part of read_images after the magic number
read_images_rest(reader) ==
    LET num_images == read_u32(reader)
    IN IF num_images.tag = "Err" THEN Err(from_io(num_images.err)) ELSE
       LET num_rows == read_u32(num_images.reader)
       IN IF num_rows.tag = "Err" THEN Err(from_io(num_rows.err)) ELSE
          LET num_cols == read_u32(num_rows.reader)
          IN IF num_cols.tag = "Err" THEN Err(from_io(num_cols.err)) ELSE
             IF num_rows.val /= IMAGE_HEIGHT \/ num_cols.val /= IMAGE_WIDTH
             THEN Err(dimension_error(num_rows.val, num_cols.val))
             ELSE read_blocks(num_cols.reader, num_images.val, <<>>)

\* the whole 16-byte header is read before the magic number is looked at
read_images_header_first(file) ==
    LET f == open(file)
    IN IF f.tag = "Err" THEN Err(from_io(f.err)) ELSE
       LET magic_number == read_u32(BufReader(f.val))
           header == read_exact(BufReader(f.val), 16)
       IN IF header.tag = "Err" THEN Err(from_io(header.err)) ELSE
          IF magic_number.val /= IMAGE_MAGIC
          THEN Err(InvalidMagicNumber(IMAGE_MAGIC, magic_number.val))
          ELSE read_images_rest(magic_number.reader)

read_images(file) ==
    LET f == open(file)
    IN IF f.tag = "Err" THEN Err(from_io(f.err)) ELSE
       LET magic_number == read_u32(BufReader(f.val))
       IN IF magic_number.tag = "Err" THEN Err(from_io(magic_number.err)) ELSE
          IF magic_number.val /= IMAGE_MAGIC
          THEN Err(InvalidMagicNumber(IMAGE_MAGIC, magic_number.val))
          ELSE read_images_rest(magic_number.reader)

---------------------------------------------------------------------------
(* f64 arithmetic: a value is mant * 2^exp, mant a sequence of MANT_BITS  *)
(* bits whose first bit is 1, or the empty sequence for 0.0               *)

Zeros(n) == [i \in 1..n |-> 0]

RECURSIVE Bits(_)
\* the binary digits of a natural number, most significant first
Bits(n) == IF n = 0 THEN <<>> ELSE Append(Bits(n \div 2), n % 2)

RECURSIVE BitsValue(_)
\* the number a short bit sequence writes
BitsValue(bits) ==
    IF bits = <<>> THEN 0
    ELSE 2 * BitsValue(SubSeq(bits, 1, Len(bits) - 1)) + bits[Len(bits)]

F64Zero == [mant |-> <<>>, exp |-> 0]

\* `p as f64`: exact
u8_as_f64(p) ==
    IF p = 0 THEN F64Zero
    ELSE LET b == Bits(p)
         IN [mant |-> b \o Zeros(MANT_BITS - Len(b)), exp |-> Len(b) - MANT_BITS]

RECURSIVE Increment(_)
\* bits + 1, the same width; all ones wraps to all zeros
Increment(bits) ==
    IF bits = <<>> THEN <<>>
    ELSE IF bits[Len(bits)] = 0
         THEN [bits EXCEPT ![Len(bits)] = 1]
         ELSE Append(Increment(SubSeq(bits, 1, Len(bits) - 1)), 0)

\* round a significand up by one unit in the last place
RoundUp(mant, exp) ==
    LET m == Increment(mant)
    IN IF m[1] = 0
       THEN [mant |-> <<1>> \o Zeros(MANT_BITS - 1), exp |-> exp + 1]
       ELSE [mant |-> m, exp |-> exp]

RECURSIVE LongDiv(_, _, _, _, _)
\* binary long division of the bits m (then zeros) by d, until the quotient
\* has MANT_BITS significant bits; n is the number of dividend bits used
LongDiv(m, i, d, r, q) ==
    IF Len(q) = MANT_BITS THEN [q |-> q, r |-> r, n |-> i - 1]
    ELSE LET cur == 2 * r + (IF i <= Len(m) THEN m[i] ELSE 0)
             qb == IF cur >= d THEN 1 ELSE 0
         IN LongDiv(m, i + 1, d, cur - qb * d,
                    IF q = <<>> /\ qb = 0 THEN q ELSE Append(q, qb))

\* x / d for a small positive integer d, rounded to nearest, ties to even
F64DivSmall(x, d) ==
    IF x.mant = <<>> THEN F64Zero
    ELSE LET l == LongDiv(x.mant, 1, d, 0, <<>>)
             e == x.exp - (l.n - MANT_BITS)
         IN IF 2 * l.r > d \/ (2 * l.r = d /\ l.q[MANT_BITS] = 1)
            THEN RoundUp(l.q, e)
            ELSE [mant |-> l.q, exp |-> e]

RECURSIVE MulBits(_, _, _, _, _)
\* the bits of m * d, from the last bit of m to the first, with carry
MulBits(m, i, d, carry, acc) ==
    IF i = 0 THEN Bits(carry) \o acc
    ELSE LET t == m[i] * d + carry
         IN MulBits(m, i - 1, d, t \div 2, <<t % 2>> \o acc)

\* x * d for a small positive integer d, rounded to nearest, ties to even
F64MulSmall(x, d) ==
    IF x.mant = <<>> THEN F64Zero
    ELSE LET p == MulBits(x.mant, MANT_BITS, d, 0, <<>>)
             extra == Len(p) - MANT_BITS
             keep == SubSeq(p, 1, MANT_BITS)
             e == x.exp + extra
         IN IF extra = 0 THEN [mant |-> keep, exp |-> e]
            ELSE LET guard == p[MANT_BITS + 1]
                     sticky == \E i \in (MANT_BITS + 2)..Len(p) : p[i] = 1
                 IN IF guard = 1 /\ (sticky \/ keep[MANT_BITS] = 1)
                    THEN RoundUp(keep, e)
                    ELSE [mant |-> keep, exp |-> e]

\* `x as u8` for x >= 0: truncates toward zero and saturates at 255
f64_as_u8(x) ==
    IF x.mant = <<>> THEN 0
    ELSE LET ibits == MANT_BITS + x.exp
         IN IF ibits <= 0 THEN 0
            ELSE IF ibits > 8 THEN 255
            ELSE BitsValue(SubSeq(x.mant, 1, ibits))

---------------------------------------------------------------------------
(* Image accessors *)

\* the byte is divided by 256.0
normalize_by_256(p) == F64DivSmall(u8_as_f64(p), 256)

\* |p| p as f64 / 255.0
normalize(p) == F64DivSmall(u8_as_f64(p), 255)

as_f64_array(image) == [i \in 1..Len(image.pixels) |-> normalize(image.pixels[i])]

\* |(f, p)| *p = (f * 255.0) as u8
denormalize(f) == f64_as_u8(F64MulSmall(f, 255))

from_f64_array(a) == Image([i \in 1..Len(a) |-> denormalize(a[i])])

as_u8_array(image) == image.pixels

as_2d_array(image) ==
    [r \in 1..IMAGE_HEIGHT |->
        [c \in 1..IMAGE_WIDTH |-> image.pixels[(r - 1) * IMAGE_WIDTH + c]]]

\* the byte is scaled by 255 instead of 256
char_index_255(p) == (p * Len(ASCII_GRADIENT)) \div 255

char_index(p) == (p * Len(ASCII_GRADIENT)) \div 256

\* what one iteration i (from 0) of the loop of fmt writes
fmt_pixel(image, i) ==
    <<ASCII_GRADIENT[char_index(image.pixels[i + 1]) + 1]>>
        \o (IF (i + 1) % IMAGE_WIDTH = 0 THEN <<"\n">> ELSE <<>>)

RECURSIVE fmt_range(_, _, _)
\* what iterations lo..hi-1 write, in order
fmt_range(image, lo, hi) ==
    IF hi <= lo THEN <<>>
    ELSE IF hi = lo + 1 THEN fmt_pixel(image, lo)
    ELSE LET mid == (lo + hi) \div 2
         IN fmt_range(image, lo, mid) \o fmt_range(image, mid, hi)

\* impl fmt::Display for Image; indexing ASCII_GRADIENT out of bounds panics
fmt(image) ==
    IF \E i \in 0..(NPIXELS - 1) :
           char_index(image.pixels[i + 1]) >= Len(ASCII_GRADIENT)
    THEN [tag |-> "Panic", out |-> <<>>]
    ELSE [tag |-> "Ok", out |-> fmt_range(image, 0, NPIXELS)]

---------------------------------------------------------------------------
(* Mnist::load *)

TRAIN_LABELS == "train-labels-idx1-ubyte"

TRAIN_IMAGES == "train-images-idx3-ubyte"

TEST_LABELS == "t10k-labels-idx1-ubyte"

TEST_IMAGES == "t10k-images-idx3-ubyte"

FileNames == {TRAIN_LABELS, TRAIN_IMAGES, TEST_LABELS, TEST_IMAGES}

Mnist(tri, trl, tei, tel) ==
    [train_images |-> tri, train_labels |-> trl,
     test_images |-> tei, test_labels |-> tel]

\* a failed decode yields an empty vector and load goes on
unwrap_or_default(r) ==
    [returns |-> FALSE, ret |-> r, value |-> IF r.tag = "Ok" THEN r.val ELSE <<>>]

\* the `?` of load: an Err returns from load at once, with the error as it is
question_mark(r) ==
    IF r.tag = "Err"
    THEN [returns |-> TRUE, ret |-> Err(r.err), value |-> <<>>]
    ELSE [returns |-> FALSE, ret |-> r, value |-> r.val]

\* assert!(train_labels.len()==train_labels.len());
\* assert!(test_labels.len()==test_images.len());
load_asserts(trl, tri, tel, tei) ==
    Len(trl) = Len(trl) /\ Len(tel) = Len(tei)

---------------------------------------------------------------------------
(* Inputs: the files the decoders are given *)

\* u32::to_be_bytes, as the IDX format writes its header fields
to_be_bytes(n) ==
    <<n \div 16777216, (n \div 65536) % 256, (n \div 256) % 256, n % 256>>

\* the byte at offset i of a generated body: every byte value occurs, and
\* consecutive blocks of NPIXELS bytes differ
BodyByte(i) == (37 * i + 5) % 256

Body(len) == [i \in 1..len |-> BodyByte(i - 1)]

Prefix(s, n) == SubSeq(s, 1, n)

Magics == {LABEL_MAGIC, IMAGE_MAGIC, 2050, 16779265}

LabelHeader(m, n) == to_be_bytes(m) \o to_be_bytes(n)

LabelFiles ==
    {File(LabelHeader(m, n) \o Body(len)) :
        m \in Magics, n \in 0..MaxLabels, len \in 0..(MaxLabels + 1)}
    \cup {File(Prefix(LabelHeader(m, n), k)) :
        m \in Magics, n \in 0..MaxLabels, k \in 0..7}

Rows == {IMAGE_HEIGHT, IMAGE_HEIGHT + 2, IMAGE_HEIGHT - 1}

Cols == {IMAGE_WIDTH, IMAGE_WIDTH - 1}

ImageHeader(m, n, r, c) ==
    to_be_bytes(m) \o to_be_bytes(n) \o to_be_bytes(r) \o to_be_bytes(c)

\* body lengths around every whole number of images
BodyLens == {l \in {k * NPIXELS + d : k \in 0..MaxCount, d \in {-1, 0, 1}} : l >= 0}

ImageFiles ==
    {File(ImageHeader(m, n, r, c) \o Body(len)) :
        m \in Magics, n \in 0..MaxCount, r \in Rows, c \in Cols, len \in BodyLens}
    \cup {File(Prefix(ImageHeader(m, n, r, c), k)) :
        m \in Magics, n \in 0..MaxCount, r \in Rows, c \in Cols, k \in 0..15}

InputFiles == LabelFiles \cup ImageFiles \cup {AbsentFile}

\* the label files of a directory given to load: good ones of every count,
\* one with the wrong magic number, one cut short, or none
LoadLabelFiles ==
    {File(LabelHeader(LABEL_MAGIC, n) \o Body(n)) : n \in 1..MaxCount}
    \cup {File(LabelHeader(IMAGE_MAGIC, 1) \o Body(1)),
          File(LabelHeader(LABEL_MAGIC, 2) \o Body(1)),
          AbsentFile}

\* the image files of a directory given to load: good ones of every count,
\* one with the wrong dimensions, one cut short
LoadImageFiles ==
    {File(ImageHeader(IMAGE_MAGIC, n, IMAGE_HEIGHT, IMAGE_WIDTH) \o Body(n * NPIXELS)) :
        n \in 1..MaxCount}
    \cup {File(ImageHeader(IMAGE_MAGIC, 1, IMAGE_HEIGHT + 2, IMAGE_WIDTH) \o Body(NPIXELS)),
          File(ImageHeader(IMAGE_MAGIC, 1, IMAGE_HEIGHT, IMAGE_WIDTH) \o Body(NPIXELS - 1))}

Dirs ==
    {[n \in FileNames |->
        CASE n = TRAIN_LABELS -> trl
          [] n = TRAIN_IMAGES -> tri
          [] n = TEST_LABELS -> tel
          [] OTHER -> tei] :
     trl \in LoadLabelFiles, tri \in LoadImageFiles,
     tel \in LoadLabelFiles, tei \in LoadImageFiles}

---------------------------------------------------------------------------
(* The state machine *)

NoCall == [fn |-> "none", file |-> AbsentFile, ret |-> [tag |-> "None"]]

NoImage == Image(<<>>)

NoText == [tag |-> "None", out |-> <<>>]

NoDir == [n \in FileNames |-> AbsentFile]

Init ==
    /\ call = NoCall
    /\ pc = "idle"
    /\ dir = NoDir
    /\ decodes = <<>>
    /\ train_labels = <<>>
    /\ train_images = <<>>
    /\ test_labels = <<>>
    /\ test_images = <<>>
    /\ loaded = [tag |-> "None"]
    /\ img = NoImage
    /\ text = NoText
    /\ fa = <<>>
    /\ back = NoImage

loadVars == <<pc, dir, decodes, train_labels, train_images, test_labels,
              test_images, loaded>>

imageVars == <<img, text, fa, back>>

Fresh == pc = "idle" /\ call = NoCall /\ img = NoImage

\* a caller decodes the label file at a path
CallReadLabels ==
    /\ Fresh
    /\ \E f \in InputFiles :
           call' = [fn |-> "read_labels", file |-> f, ret |-> read_labels(f)]
    /\ UNCHANGED <<loadVars, imageVars>>

\* a caller decodes the image file at a path
CallReadImages ==
    /\ Fresh
    /\ \E f \in InputFiles :
           call' = [fn |-> "read_images", file |-> f, ret |-> read_images(f)]
    /\ UNCHANGED <<loadVars, imageVars>>

\* the caller takes one of the decoded images
TakeImage ==
    /\ call.fn = "read_images"
    /\ call.ret.tag = "Ok"
    /\ \E k \in 1..Len(call.ret.val) : img' = call.ret.val[k]
    /\ call' = NoCall
    /\ UNCHANGED <<loadVars, text, fa, back>>

\* println!("{}", image)
Display ==
    /\ img /= NoImage
    /\ text = NoText
    /\ text' = fmt(img)
    /\ UNCHANGED <<call, loadVars, img, fa, back>>

AsF64Array ==
    /\ img /= NoImage
    /\ fa = <<>>
    /\ fa' = as_f64_array(img)
    /\ UNCHANGED <<call, loadVars, img, text, back>>

FromF64Array ==
    /\ fa /= <<>>
    /\ back = NoImage
    /\ back' = from_f64_array(fa)
    /\ UNCHANGED <<call, loadVars, img, text, fa>>

\* Mnist::load(dir) is called
LoadBegin ==
    /\ Fresh
    /\ \E d \in Dirs : dir' = d
    /\ pc' = "train_labels"
    /\ UNCHANGED <<call, decodes, train_labels, train_images, test_labels,
                   test_images, loaded, imageVars>>

\* let train_labels = read_labels(&dir.join("train-labels-idx1-ubyte"))?;
LoadTrainLabels ==
    /\ pc = "train_labels"
    /\ LET r == read_labels(dir[TRAIN_LABELS])
           t == question_mark(r)
       IN /\ decodes' = Append(decodes, [path |-> TRAIN_LABELS, ret |-> r])
          /\ IF t.returns
             THEN loaded' = t.ret /\ pc' = "done" /\ UNCHANGED train_labels
             ELSE train_labels' = t.value /\ pc' = "train_images" /\ UNCHANGED loaded
    /\ UNCHANGED <<call, dir, train_images, test_labels, test_images, imageVars>>

\* let train_images = read_images(&dir.join("train-images-idx3-ubyte"))?;
LoadTrainImages ==
    /\ pc = "train_images"
    /\ LET r == read_images(dir[TRAIN_IMAGES])
           t == question_mark(r)
       IN /\ decodes' = Append(decodes, [path |-> TRAIN_IMAGES, ret |-> r])
          /\ IF t.returns
             THEN loaded' = t.ret /\ pc' = "done" /\ UNCHANGED train_images
             ELSE train_images' = t.value /\ pc' = "test_labels" /\ UNCHANGED loaded
    /\ UNCHANGED <<call, dir, train_labels, test_labels, test_images, imageVars>>

\* let test_labels = read_labels(&dir.join("t10k-labels-idx1-ubyte"))?;
LoadTestLabels ==
    /\ pc = "test_labels"
    /\ LET r == read_labels(dir[TEST_LABELS])
           t == question_mark(r)
       IN /\ decodes' = Append(decodes, [path |-> TEST_LABELS, ret |-> r])
          /\ IF t.returns
             THEN loaded' = t.ret /\ pc' = "done" /\ UNCHANGED test_labels
             ELSE test_labels' = t.value /\ pc' = "test_images" /\ UNCHANGED loaded
    /\ UNCHANGED <<call, dir, train_labels, train_images, test_images, imageVars>>

\* let test_images = read_images(&dir.join("t10k-images-idx3-ubyte"))?;
LoadTestImages ==
    /\ pc = "test_images"
    /\ LET r == read_images(dir[TEST_IMAGES])
           t == question_mark(r)
       IN /\ decodes' = Append(decodes, [path |-> TEST_IMAGES, ret |-> r])
          /\ IF t.returns
             THEN loaded' = t.ret /\ pc' = "done" /\ UNCHANGED test_images
             ELSE test_images' = t.value /\ pc' = "asserts" /\ UNCHANGED loaded
    /\ UNCHANGED <<call, dir, train_labels, train_images, test_labels, imageVars>>

\* the two assert! lines, then Ok(Self { .. }); a failed assert! panics
LoadReturn ==
    /\ pc = "asserts"
    /\ loaded' = IF load_asserts(train_labels, train_images, test_labels, test_images)
                 THEN Ok(Mnist(train_images, train_labels, test_images, test_labels))
                 ELSE [tag |-> "Panic"]
    /\ pc' = "done"
    /\ UNCHANGED <<call, dir, decodes, train_labels, train_images, test_labels,
                   test_images, imageVars>>

Next ==
    \/ CallReadLabels
    \/ CallReadImages
    \/ TakeImage
    \/ Display
    \/ AsF64Array
    \/ FromF64Array
    \/ LoadBegin
    \/ LoadTrainLabels
    \/ LoadTrainImages
    \/ LoadTestLabels
    \/ LoadTestImages
    \/ LoadReturn

Spec == Init /\ [][Next]_vars

---------------------------------------------------------------------------
(* The claims.  The formulas read the file's bytes themselves, not through *)
(* the decoders' own operators.                                            *)

\* field k (from 0) of a file's header: 32 bits, big-endian
FieldAt(bytes, k) ==
    bytes[4 * k + 1] * 16777216 + bytes[4 * k + 2] * 65536
        + bytes[4 * k + 3] * 256 + bytes[4 * k + 4]

\* the place of a glyph in the gradient, from 0
Rank(ch) == CHOOSE k \in 0..(Len(ASCII_GRADIENT) - 1) : ASCII_GRADIENT[k + 1] = ch

LabelCall == call.fn = "read_labels" /\ call.file.present

ImageCall == call.fn = "read_images" /\ call.file.present

\* an image file whose 16-byte header is there, with the magic number and
\* the dimensions read_images wants
GoodImageHeader ==
    /\ ImageCall
    /\ Len(call.file.bytes) >= 16
    /\ FieldAt(call.file.bytes, 0) = 2051
    /\ FieldAt(call.file.bytes, 2) = IMAGE_HEIGHT
    /\ FieldAt(call.file.bytes, 3) = IMAGE_WIDTH

\* C1: read_labels on a label file with magic 2049 and a body of at least
\* the declared count of bytes returns Ok with exactly that many labels, the
\* i-th being the i-th body byte, whatever its value.
C1_LabelsInFileOrder ==
    (/\ LabelCall
     /\ Len(call.file.bytes) >= 8
     /\ FieldAt(call.file.bytes, 0) = 2049
     /\ Len(call.file.bytes) - 8 >= FieldAt(call.file.bytes, 1))
    => /\ call.ret.tag = "Ok"
       /\ Len(call.ret.val) = FieldAt(call.file.bytes, 1)
       /\ \A i \in 1..Len(call.ret.val) : call.ret.val[i] = call.file.bytes[8 + i]

\* a decode of several labels, one of them above 9, from a file that holds
\* more bytes than it declares
C1_Witness ==
    /\ LabelCall
    /\ call.ret.tag = "Ok"
    /\ Len(call.ret.val) >= 2
    /\ \E i \in 1..Len(call.ret.val) : call.ret.val[i] > 9
    /\ call.ret.val[1] /= call.ret.val[2]
    /\ Len(call.file.bytes) > 8 + Len(call.ret.val)

\* C2: read_images on an image file with magic 2051, the configured rows
\* and columns and a body of at least count * rows * cols bytes returns Ok
\* with exactly count images of rows * cols bytes each, image k being the
\* k-th block of the body, byte for byte, row after row.
C2_ImagesAreBodyBlocks ==
    (/\ GoodImageHeader
     /\ Len(call.file.bytes) - 16
            >= FieldAt(call.file.bytes, 1) * IMAGE_HEIGHT * IMAGE_WIDTH)
    => /\ call.ret.tag = "Ok"
       /\ Len(call.ret.val) = FieldAt(call.file.bytes, 1)
       /\ \A k \in 1..Len(call.ret.val) :
            LET at == 16 + (k - 1) * IMAGE_HEIGHT * IMAGE_WIDTH
            IN /\ Len(as_u8_array(call.ret.val[k])) = IMAGE_HEIGHT * IMAGE_WIDTH
               /\ \A j \in 1..(IMAGE_HEIGHT * IMAGE_WIDTH) :
                    as_u8_array(call.ret.val[k])[j] = call.file.bytes[at + j]
               /\ \A r \in 1..IMAGE_HEIGHT : \A c \in 1..IMAGE_WIDTH :
                    as_2d_array(call.ret.val[k])[r][c]
                        = call.file.bytes[at + (r - 1) * IMAGE_WIDTH + c]

\* a decode of two or more images that differ, from a file with bytes left
\* over after the last image
C2_Witness ==
    /\ ImageCall
    /\ call.ret.tag = "Ok"
    /\ Len(call.ret.val) >= 2
    /\ call.ret.val[1] /= call.ret.val[2]
    /\ Len(call.file.bytes) > 16 + Len(call.ret.val) * NPIXELS

\* C3: when the first big-endian 32-bit field differs from the decoder's
\* magic number (2049 for read_labels, 2051 for read_images) the decoder
\* returns InvalidMagicNumber with that number as expected and the parsed
\* field as found, and nothing is decoded.
C3_WrongMagic ==
    \A d \in {<<"read_labels", 2049>>, <<"read_images", 2051>>} :
        (/\ call.fn = d[1]
         /\ call.file.present
         /\ Len(call.file.bytes) >= 4
         /\ FieldAt(call.file.bytes, 0) /= d[2])
        => /\ call.ret.tag = "Err"
           /\ call.ret.err.kind = "InvalidMagicNumber"
           /\ call.ret.err.expected = d[2]
           /\ call.ret.err.found = FieldAt(call.file.bytes, 0)

\* read_images given a complete label file: found is 2049
C3_Witness ==
    /\ ImageCall
    /\ Len(call.file.bytes) > 8
    /\ call.ret.tag = "Err"
    /\ call.ret.err.kind = "InvalidMagicNumber"
    /\ call.ret.err.found = 2049

\* C4: when the magic is 2051 and the declared (rows, cols) is not the
\* configured (height, width), read_images returns InvalidImageDimensions
\* with expected = (width, height) and found = (cols, rows), whatever the
\* count and the body.
C4_WrongDimensions ==
    (/\ ImageCall
     /\ Len(call.file.bytes) >= 16
     /\ FieldAt(call.file.bytes, 0) = 2051
     /\ <<FieldAt(call.file.bytes, 2), FieldAt(call.file.bytes, 3)>>
            /= <<IMAGE_HEIGHT, IMAGE_WIDTH>>)
    => /\ call.ret.tag = "Err"
       /\ call.ret.err.kind = "InvalidImageDimensions"
       /\ call.ret.err.expected = <<IMAGE_WIDTH, IMAGE_HEIGHT>>
       /\ call.ret.err.found
            = <<FieldAt(call.file.bytes, 3), FieldAt(call.file.bytes, 2)>>

\* a rejected file whose rows and columns differ from each other, with
\* images declared and a whole body present
C4_Witness ==
    /\ ImageCall
    /\ call.ret.tag = "Err"
    /\ call.ret.err.kind = "InvalidImageDimensions"
    /\ call.ret.err.found[1] /= call.ret.err.found[2]
    /\ FieldAt(call.file.bytes, 1) >= 1
    /\ Len(call.file.bytes) >= 16 + FieldAt(call.file.bytes, 1) * NPIXELS

\* C5: a body shorter than a valid header declares (fewer than count bytes
\* of labels, fewer than count * rows * cols bytes of images) yields an Io
\* error, never a shorter sequence or a partly filled image.
C5_TruncatedBody ==
    /\ (/\ LabelCall
        /\ Len(call.file.bytes) >= 8
        /\ FieldAt(call.file.bytes, 0) = 2049
        /\ Len(call.file.bytes) - 8 < FieldAt(call.file.bytes, 1))
       => (call.ret.tag = "Err" /\ call.ret.err.kind = "Io")
    /\ (/\ GoodImageHeader
        /\ Len(call.file.bytes) - 16
               < FieldAt(call.file.bytes, 1) * IMAGE_HEIGHT * IMAGE_WIDTH)
       => (call.ret.tag = "Err" /\ call.ret.err.kind = "Io")

\* an image file whose first image is whole and whose last is one byte short
C5_Witness ==
    /\ GoodImageHeader
    /\ FieldAt(call.file.bytes, 1) >= 2
    /\ Len(call.file.bytes) = 16 + FieldAt(call.file.bytes, 1) * NPIXELS - 1
    /\ call.ret.tag = "Err"
    /\ call.ret.err.kind = "Io"

\* C6: whenever Mnist::load returns a bundle, in each split the number of
\* images equals the number of labels.
C6_SplitLengthsMatch ==
    (pc = "done" /\ loaded.tag = "Ok")
    => /\ Len(loaded.val.train_images) = Len(loaded.val.train_labels)
       /\ Len(loaded.val.test_images) = Len(loaded.val.test_labels)

LoadOrder == <<TRAIN_LABELS, TRAIN_IMAGES, TEST_LABELS, TEST_IMAGES>>

\* C7: if a decode of Mnist::load fails, load returns that decode's error
\* as it is, decodes nothing after it and returns no bundle; a bundle is
\* returned only when all four decodes succeeded.
C7_FirstFailureIsReturned ==
    LET failing == {i \in 1..Len(decodes) : decodes[i].ret.tag = "Err"}
    IN /\ Len(decodes) <= 4
       /\ \A i \in 1..Len(decodes) : decodes[i].path = LoadOrder[i]
       /\ pc = "done" =>
            /\ failing /= {} =>
                 /\ failing = {Len(decodes)}
                 /\ loaded.tag = "Err"
                 /\ loaded.err = decodes[Len(decodes)].ret.err
            /\ loaded.tag = "Ok" => (Len(decodes) = 4 /\ failing = {})
       /\ pc /= "done" => (failing = {} /\ loaded.tag = "None")

\* load ended by the second decode rejecting the image dimensions
C7_Witness ==
    /\ pc = "done"
    /\ Len(decodes) = 2
    /\ loaded.tag = "Err"
    /\ loaded.err.kind = "InvalidImageDimensions"

\* C8: for every image, from_f64_array(img.as_f64_array()) has the bytes of
\* img: b / 255.0 * 255.0 truncates to b for every byte b.
C8_RoundTripExact ==
    back /= NoImage
    => /\ Len(fa) = NPIXELS
       /\ as_u8_array(back) = as_u8_array(img)

\* a round trip of an image in which every byte value occurs
C8_Witness ==
    /\ back /= NoImage
    /\ \A b \in 0..255 : \E i \in 1..256 : img.pixels[i] = b

\* C9: read_images reports the first failing step, in the order magic,
\* header, dimensions, body: a wrong magic is InvalidMagicNumber whatever
\* follows; with the right magic a header under 16 bytes is an Io error;
\* with a whole header, wrong dimensions are InvalidImageDimensions whatever
\* the body.
C9_ValidationOrder ==
    ImageCall =>
        LET bytes == call.file.bytes
        IN /\ call.ret.tag = "Err" => call.ret.err.kind \in
                {"Io", "InvalidMagicNumber", "InvalidImageDimensions"}
           /\ Len(bytes) < 4 => (call.ret.tag = "Err" /\ call.ret.err.kind = "Io")
           /\ (Len(bytes) >= 4 /\ FieldAt(bytes, 0) /= 2051)
                => (call.ret.tag = "Err" /\ call.ret.err.kind = "InvalidMagicNumber")
           /\ (Len(bytes) >= 4 /\ Len(bytes) < 16 /\ FieldAt(bytes, 0) = 2051)
                => (call.ret.tag = "Err" /\ call.ret.err.kind = "Io")
           /\ (/\ Len(bytes) >= 16
               /\ FieldAt(bytes, 0) = 2051
               /\ (FieldAt(bytes, 2) /= IMAGE_HEIGHT \/ FieldAt(bytes, 3) /= IMAGE_WIDTH))
                => (call.ret.tag = "Err" /\ call.ret.err.kind = "InvalidImageDimensions")

\* a wrong magic number in a header that stops before its last field
C9_Witness ==
    /\ ImageCall
    /\ Len(call.file.bytes) >= 12
    /\ Len(call.file.bytes) < 16
    /\ FieldAt(call.file.bytes, 0) /= 2051
    /\ FieldAt(call.file.bytes, 2) /= IMAGE_HEIGHT
    /\ call.ret.tag = "Err"
    /\ call.ret.err.kind = "InvalidMagicNumber"

\* C10: Display writes, for every pixel byte b, the glyph of bucket
\* floor(b * 5 / 256), which is within 0..4 and does not decrease as b
\* grows, one glyph per pixel and a line break after every IMAGE_WIDTH-th,
\* which makes IMAGE_HEIGHT lines of IMAGE_WIDTH glyphs.
C10_DisplayGrid ==
    text /= NoText
    => /\ text.tag = "Ok"
       /\ Len(text.out) = IMAGE_HEIGHT * (IMAGE_WIDTH + 1)
       /\ \A r \in 0..(IMAGE_HEIGHT - 1) :
            /\ text.out[r * (IMAGE_WIDTH + 1) + IMAGE_WIDTH + 1] = "\n"
            /\ \A c \in 1..IMAGE_WIDTH :
                 LET b == img.pixels[r * IMAGE_WIDTH + c]
                     ch == text.out[r * (IMAGE_WIDTH + 1) + c]
                 IN /\ ch /= "\n"
                    /\ (b * 5) \div 256 \in 0..4
                    /\ ch = ASCII_GRADIENT[(b * 5) \div 256 + 1]
       /\ \A i, j \in 1..256 :
            LET at(k) == ((k - 1) \div IMAGE_WIDTH) * (IMAGE_WIDTH + 1)
                            + ((k - 1) % IMAGE_WIDTH) + 1
            IN img.pixels[i] <= img.pixels[j]
                 => Rank(text.out[at(i)]) <= Rank(text.out[at(j)])

\* an image in which every byte value occurs has been displayed
C10_Witness ==
    /\ text.tag = "Ok"
    /\ \A b \in 0..255 : \E i \in 1..256 : img.pixels[i] = b
    /\ \A g \in 1..Len(ASCII_GRADIENT) :
         \E i \in 1..Len(text.out) : text.out[i] = ASCII_GRADIENT[g]

====
